---- MODULE Spec2Model ----
(***************************************************************************)
(* Delayed mention notifications of PyrusTelegramBot: the quiet-hours      *)
(* clock and the scheduling function (app/utils.py), the pending queue and *)
(* the processed-comments ledger (app/db.py), the webhook ingestion        *)
(* handlers (app/api.py) and the delivery worker (app/worker.py).          *)
(*                                                                         *)
(* Instants are minutes since 00:00 UTC of day 0.  The configured zone     *)
(* (Asia/Yekaterinburg) has had a fixed offset of +05:00 with no DST since *)
(* 2014, so astimezone() is the addition of TzOffset minutes.              *)
(* The API and the worker are separate processes (run_stage5.py), so a     *)
(* webhook handler runs between any two steps of a worker tick.            *)
(***************************************************************************)
EXTENDS Integers, Sequences, FiniteSets, TLC

VARIABLES
    pending,     \* table pending_notifications: a set of rows
    processed,   \* table processed_comments: a set of <<task_id, comment_id>>
    settings,    \* value of settings['service_enabled'] ("none" = no row)
    now,         \* wall clock, minutes UTC
    wpc,         \* worker position: "idle", "sending", "updating", "stopped"
    wnow,        \* `now` captured at the start of the running tick (ClockStart when idle)
    due,         \* due_records selected by the running tick
    toSend,      \* recipients of user_batches not yet handled in this tick
    delivery,    \* the latest delivery attempt of the running tick
    cin,         \* inputs of the pure functions (SpecClock, SpecSend)
    cout         \* their results (SpecClock, SpecSend)

vars == <<pending, processed, settings, now, wpc, wnow, due, toSend,
          delivery, cin, cout>>

-----------------------------------------------------------------------------
(* Bounds of the model *)

\* number of clock advances explored
MaxClockSteps == 3
\* largest number of comments in the payload of one comment event
MaxPayloadComments == 2
\* the instants given to the clock functions: quarter hours 0..MaxQuarterHours
MaxQuarterHours == 191

(* Program configuration (defaults of the environment variables) *)

MinPerHour == 60
MinPerDay == 24 * MinPerHour
\* UTC offset of TZ = "Asia/Yekaterinburg", in minutes
TzOffset == 300
\* DELAY_HOURS = 3, in minutes
DELAY_HOURS == 180
\* REPEAT_INTERVAL_HOURS = 3, in minutes
REPEAT_INTERVAL_HOURS == 180
\* TTL_HOURS = 24, in minutes
TTL_HOURS == 1440
\* QUIET_START = "22:00", QUIET_END = "09:00"
QUIET_START == <<22, 0>>
QUIET_END == <<9, 0>>

-----------------------------------------------------------------------------
(* app/utils.py : quiet hours and scheduling *)

\* dt.astimezone(tz).time(), as minutes since local midnight
LocalTimeOfDay(dt) == (dt + TzOffset) % MinPerDay
\* dt.astimezone(tz).date(), as a day number
LocalDate(dt) == (dt + TzOffset) \div MinPerDay
\* dt.astimezone(tz).hour
LocalHour(dt) == LocalTimeOfDay(dt) \div MinPerHour
\* datetime.min.time().replace(hour=h, minute=m)
TimeOf(hm) == hm[1] * MinPerHour + hm[2]

\* is_in_quiet_hours with the end instant taken as inside the window
is_in_quiet_hours_closed_end(dt, quiet_start, quiet_end) ==
    LET current_time == LocalTimeOfDay(dt)
        quiet_start_time == TimeOf(quiet_start)
        quiet_end_time == TimeOf(quiet_end)
    IN  IF quiet_end_time <= quiet_start_time
        THEN current_time >= quiet_start_time \/ current_time <= quiet_end_time
        ELSE quiet_start_time <= current_time /\ current_time <= quiet_end_time

is_in_quiet_hours(dt, quiet_start, quiet_end) ==
    LET current_time == LocalTimeOfDay(dt)
        quiet_start_time == TimeOf(quiet_start)
        quiet_end_time == TimeOf(quiet_end)
    IN  IF quiet_end_time <= quiet_start_time
        THEN current_time >= quiet_start_time \/ current_time < quiet_end_time
        ELSE quiet_start_time <= current_time /\ current_time < quiet_end_time

\* schedule_after that adds only the whole hours of the delay
schedule_after_whole_hours(base_ts, hours, quiet_start, quiet_end) ==
    LET scheduled_time == base_ts + (hours \div MinPerHour) * MinPerHour
        end_hour == quiet_end[1]
        start_hour == quiet_start[1]
        next_day == IF end_hour <= start_hour
                    THEN IF LocalHour(scheduled_time) >= start_hour
                         THEN LocalDate(scheduled_time) + 1
                         ELSE LocalDate(scheduled_time)
                    ELSE LocalDate(scheduled_time) + 1
        end_time == next_day * MinPerDay + TimeOf(quiet_end) - TzOffset
    IN  IF is_in_quiet_hours(scheduled_time, quiet_start, quiet_end)
        THEN end_time
        ELSE scheduled_time

schedule_after(base_ts, hours, quiet_start, quiet_end) ==
    LET scheduled_time == base_ts + hours
        end_hour == quiet_end[1]
        start_hour == quiet_start[1]
        next_day == IF end_hour <= start_hour
                    THEN IF LocalHour(scheduled_time) >= start_hour
                         THEN LocalDate(scheduled_time) + 1
                         ELSE LocalDate(scheduled_time)
                    ELSE LocalDate(scheduled_time) + 1
        \* tz.localize(datetime.combine(next_day, end)).astimezone(UTC)
        end_time == next_day * MinPerDay + TimeOf(quiet_end) - TzOffset
    IN  IF is_in_quiet_hours(scheduled_time, quiet_start, quiet_end)
        THEN end_time
        ELSE scheduled_time

-----------------------------------------------------------------------------
(* The environment: users, tasks and the comments Pyrus can deliver *)

\* rows of table users (registered recipients)
RegisteredUsers == {1, 2}
\* a Pyrus user without a row in table users
UnregisteredUser == 3
Tasks == {1, 2}
NoActor == 0
\* payload.actor: absent, or one of the registered users
Actors == {NoActor} \cup RegisteredUsers
NoComment == 0

\* The comments of the two tasks (PyrusComment: id, task, author,
\* create_date, mentions).  Local creation times: 11:00, 20:00, 23:00, 08:00.
Comment(c) ==
    CASE c = 1 -> [task |-> 1, author |-> 3, create_date |-> 360,  mentions |-> <<3, 1>>]
      [] c = 2 -> [task |-> 1, author |-> 2, create_date |-> 900,  mentions |-> <<1>>]
      [] c = 3 -> [task |-> 1, author |-> 1, create_date |-> 1080, mentions |-> <<2>>]
      [] c = 4 -> [task |-> 2, author |-> 3, create_date |-> 180,  mentions |-> <<1>>]
CommentIds == {1, 2, 3, 4}
CommentsOf(t) == {c \in CommentIds : Comment(c).task = t}

\* change.kind of a payload ("absent" = the change has no key `kind`)
ChangeKinds == {"absent", "field_changed", "viewed"}
\* REACTION_EXCLUDE_KINDS
REACTION_EXCLUDE_KINDS == {"viewed", "opened", "read"}

-----------------------------------------------------------------------------
(* app/db.py : tables pending_notifications and processed_comments *)

RowsOf(pend, task_id, user_id) ==
    {r \in pend : r.task_id = task_id /\ r.user_id = user_id}

\* db.get_user: a row of table users or None
get_user(user_id) == user_id \in RegisteredUsers

\* upsert_or_shift_pending that inserts without looking for an existing row
upsert_always_inserts(pend, task_id, user_id, mention_ts, comment_id, next_send_at) ==
    pend \cup
    {[task_id |-> task_id,
      user_id |-> user_id,
      first_mention_at |-> mention_ts,
      last_mention_at |-> mention_ts,
      last_mention_comment_id |-> comment_id,
      last_mention_comment_text |-> comment_id,
      next_send_at |-> next_send_at,
      times_sent |-> 0,
      task_title |-> task_id]}

\* upsert_or_shift_pending whose update also restarts the send counter
upsert_resets_times_sent(pend, task_id, user_id, mention_ts, comment_id, next_send_at) ==
    LET existing == RowsOf(pend, task_id, user_id)
    IN  (pend \ existing) \cup
        {[task_id |-> task_id,
          user_id |-> user_id,
          first_mention_at |-> IF existing # {}
                               THEN (CHOOSE r \in existing : TRUE).first_mention_at
                               ELSE mention_ts,
          last_mention_at |-> mention_ts,
          last_mention_comment_id |-> comment_id,
          last_mention_comment_text |-> comment_id,
          next_send_at |-> next_send_at,
          times_sent |-> 0,
          task_title |-> task_id]}

upsert_or_shift_pending(pend, task_id, user_id, mention_ts, comment_id, next_send_at) ==
    LET existing == RowsOf(pend, task_id, user_id)
    IN  IF existing # {}
        THEN (pend \ existing) \cup
             {[r EXCEPT !.last_mention_at = mention_ts,
                        !.last_mention_comment_id = comment_id,
                        !.last_mention_comment_text = comment_id,
                        !.next_send_at = next_send_at,
                        !.task_title = task_id] : r \in existing}
        ELSE pend \cup
             {[task_id |-> task_id,
               user_id |-> user_id,
               first_mention_at |-> mention_ts,
               last_mention_at |-> mention_ts,
               last_mention_comment_id |-> comment_id,
               last_mention_comment_text |-> comment_id,
               next_send_at |-> next_send_at,
               times_sent |-> 0,
               task_title |-> task_id]}

\* delete_pending that filters on the task only
delete_pending_whole_task(pend, task_id, user_id) == {r \in pend : r.task_id # task_id}

delete_pending(pend, task_id, user_id) == pend \ RowsOf(pend, task_id, user_id)

\* delete_pending_by_task without its filter
delete_pending_by_task_unfiltered(pend, task_id) == {}

delete_pending_by_task(pend, task_id) == {r \in pend : r.task_id # task_id}

\* delete_pending_by_comment without the filter on the task
delete_pending_by_comment_any_task(pend, task_id, comment_id) ==
    {r \in pend : r.last_mention_comment_id # comment_id}

delete_pending_by_comment(pend, task_id, comment_id) ==
    {r \in pend : ~(r.task_id = task_id /\ r.last_mention_comment_id = comment_id)}

\* select_due without the filter on next_send_at
select_due_unfiltered(pend, now_ts) ==
    {r \in pend : get_user(r.user_id)}

\* select(...).lte("next_send_at", now_ts), then only records whose user has a
\* row in table users
select_due(pend, now_ts) ==
    {r \in pend : r.next_send_at <= now_ts /\ get_user(r.user_id)}

\* mark_sent_or_delete_by_ttl that reschedules without the quiet-hours deferral
mark_sent_without_deferral(pend, task_id, user_id, now_ts) ==
    LET result == RowsOf(pend, task_id, user_id)
    IN  IF result = {}
        THEN pend
        ELSE LET row == CHOOSE r \in result : TRUE
                 expires_at == row.last_mention_at + TTL_HOURS
             IN  IF now_ts >= expires_at
                 THEN pend \ result
                 ELSE (pend \ result) \cup
                      {[r EXCEPT !.times_sent = row.times_sent + 1,
                                 !.next_send_at = now_ts + REPEAT_INTERVAL_HOURS]
                         : r \in result}

\* mark_sent_or_delete_by_ttl that leaves an expired row in the queue
mark_sent_keeps_expired(pend, task_id, user_id, now_ts) ==
    LET result == RowsOf(pend, task_id, user_id)
    IN  IF result = {}
        THEN pend
        ELSE LET row == CHOOSE r \in result : TRUE
                 expires_at == row.last_mention_at + TTL_HOURS
             IN  IF now_ts >= expires_at
                 THEN pend
                 ELSE (pend \ result) \cup
                      {[r EXCEPT !.times_sent = row.times_sent + 1,
                                 !.next_send_at = schedule_after(now_ts, REPEAT_INTERVAL_HOURS,
                                                                 QUIET_START, QUIET_END)]
                         : r \in result}

mark_sent_or_delete_by_ttl(pend, task_id, user_id, now_ts) ==
    LET result == RowsOf(pend, task_id, user_id)
    IN  IF result = {}
        THEN pend
        ELSE LET row == CHOOSE r \in result : TRUE
                 expires_at == row.last_mention_at + TTL_HOURS
             IN  IF now_ts >= expires_at
                 THEN delete_pending(pend, task_id, user_id)
                 ELSE (pend \ result) \cup
                      {[r EXCEPT !.times_sent = row.times_sent + 1,
                                 !.next_send_at = schedule_after(now_ts, REPEAT_INTERVAL_HOURS,
                                                                 QUIET_START, QUIET_END)]
                         : r \in result}

processed_comment_exists(proc, task_id, comment_id) == <<task_id, comment_id>> \in proc

\* insert_processed_comment that writes nothing
insert_processed_comment_dropped(proc, task_id, comment_id) == proc

insert_processed_comment(proc, task_id, comment_id) == proc \cup {<<task_id, comment_id>>}

-----------------------------------------------------------------------------
(* app/api.py : webhook ingestion *)

\* sorted(task.comments, key=lambda c: c.create_date)
RECURSIVE comments_sorted(_)
comments_sorted(cs) ==
    IF cs = {} THEN <<>>
    ELSE LET first == CHOOSE c \in cs :
                        \A d \in cs : Comment(c).create_date <= Comment(d).create_date
         IN  <<first>> \o comments_sorted(cs \ {first})

\* The store operation of the comments loop whose first call raises (the
\* Supabase client raises on any failed request and db.py catches nothing)
DbFaults == {"processed_comment_exists", "insert_processed_comment",
             "upsert_or_shift_pending"}

\* api.py:289-321, the loop over comment.mentions.  has_subject is the
\* truthiness of task.subject: PyrusTask declares no field `text`, so
\* evaluating `task.subject or task.text` with a falsy subject raises
\* AttributeError at the first registered mentioned user.  db_fail names
\* the store operation that raises ("none": the store answers every call).
RECURSIVE mentions_loop(_, _, _, _, _, _)
mentions_loop(pend, task_id, c, i, has_subject, db_fail) ==
    IF i > Len(Comment(c).mentions)
    THEN [pending |-> pend, raised |-> FALSE]
    ELSE LET mentioned_user_id == Comment(c).mentions[i]
             mention_time == Comment(c).create_date
             next_send_at == schedule_after(mention_time, DELAY_HOURS, QUIET_START, QUIET_END)
             upserted == upsert_or_shift_pending(pend, task_id, mentioned_user_id,
                                                 mention_time, c, next_send_at)
         IN  IF ~get_user(mentioned_user_id)
             THEN mentions_loop(pend, task_id, c, i + 1, has_subject, db_fail)
             ELSE IF ~has_subject \/ db_fail = "upsert_or_shift_pending"
             THEN [pending |-> pend, raised |-> TRUE]
             ELSE mentions_loop(upserted, task_id, c, i + 1, has_subject, db_fail)

\* api.py:263-321, the loop over comments_sorted; `inserts` counts the calls
\* of insert_processed_comment that were executed
RECURSIVE comments_loop(_, _, _, _, _, _)
comments_loop(pend, proc, task_id, cseq, has_subject, db_fail) ==
    IF cseq = <<>>
    THEN [pending |-> pend, processed |-> proc, raised |-> FALSE, inserts |-> 0]
    ELSE LET c == Head(cseq)
         IN  IF db_fail = "processed_comment_exists"
             THEN [pending |-> pend, processed |-> proc, raised |-> TRUE, inserts |-> 0]
             ELSE IF processed_comment_exists(proc, task_id, c)
             THEN comments_loop(pend, proc, task_id, Tail(cseq), has_subject, db_fail)
             ELSE IF db_fail = "insert_processed_comment"
             THEN [pending |-> pend, processed |-> proc, raised |-> TRUE, inserts |-> 0]
             ELSE LET proc1 == insert_processed_comment(proc, task_id, c)
                      m == mentions_loop(pend, task_id, c, 1, has_subject, db_fail)
                      rest == comments_loop(m.pending, proc1, task_id, Tail(cseq),
                                            has_subject, db_fail)
                  IN  IF m.raised
                      THEN [pending |-> m.pending, processed |-> proc1,
                            raised |-> TRUE, inserts |-> 1]
                      ELSE [rest EXCEPT !.inserts = rest.inserts + 1]

\* delete_pending for every id of a set (api.py:332-334, 229-231)
clear_users(pend, task_id, ids) == {r \in pend : ~(r.task_id = task_id /\ r.user_id \in ids)}

\* _handle_comment_event as called from _process_webhook_event, whose
\* `except Exception` swallows whatever the handler raises
_handle_comment_event(pend, proc, task_id, cs, actor, has_subject, db_fail) ==
    IF cs = {}
    THEN [pending |-> pend, processed |-> proc, raised |-> FALSE, inserts |-> 0]
    ELSE LET l == comments_loop(pend, proc, task_id, comments_sorted(cs),
                                has_subject, db_fail)
             authors_to_clear == {Comment(c).author : c \in cs}
             p1 == clear_users(l.pending, task_id, authors_to_clear)
             p2 == IF actor # NoActor THEN delete_pending(p1, task_id, actor) ELSE p1
         IN  IF l.raised THEN l
             ELSE [l EXCEPT !.pending = p2]

NoChange == [kind |-> "absent", user_id |-> 0, comment_id |-> NoComment]

\* _collect_reacting_user_ids for an event that is not a comment event
_collect_reacting_user_ids(actor, change) ==
    (IF actor # NoActor THEN {actor} ELSE {}) \cup
    (IF change # NoChange /\ change.user_id # 0 THEN {change.user_id} ELSE {})

\* api.py:220-241: the generic reaction after the handler of the event type
generic_reaction(pend, task_id, actor, change) ==
    IF change # NoChange /\ change.kind \in REACTION_EXCLUDE_KINDS
    THEN pend
    ELSE clear_users(pend, task_id, _collect_reacting_user_ids(actor, change))

_handle_task_update_event(pend, task_id, actor) ==
    IF actor = NoActor THEN pend ELSE delete_pending(pend, task_id, actor)

\* _process_webhook_event for event = "task_updated" or "form_updated": the
\* handler of the event type, then the generic reaction
process_task_updated(pend, task_id, actor, change) ==
    generic_reaction(_handle_task_update_event(pend, task_id, actor),
                     task_id, actor, change)

_handle_task_closed_event(pend, task_id) == delete_pending_by_task(pend, task_id)

_handle_comment_deleted_event(pend, task_id, change) ==
    IF change = NoChange \/ change.comment_id = NoComment
    THEN pend
    ELSE delete_pending_by_comment(pend, task_id, change.comment_id)

\* _process_webhook_event for event = "comment_deleted": the handler of the
\* event type, then the generic reaction
process_comment_deleted(pend, task_id, actor, change) ==
    generic_reaction(_handle_comment_deleted_event(pend, task_id, change),
                     task_id, actor, change)

-----------------------------------------------------------------------------
(* app/bot.py : delivery with retries *)

\* what application.bot.send_message does on one attempt: it returns, or
\* raises RetryAfter, TimedOut, a TelegramError whose text says the chat was
\* not found or the bot was blocked, another TelegramError, or something else
ChannelResults == {"ok", "retry_after", "timed_out", "blocked", "telegram_error",
                   "exception"}

\* send_notification(..., retries: int = 3)
retries == 3
\* [1, 3, 9][attempt]
BackoffWaits == <<1, 3, 9>>

\* send_notification that goes on to the next attempt after a blocked chat
RECURSIVE send_attempts_retrying_blocked(_, _, _, _)
send_attempts_retrying_blocked(results, retry_after, attempt, waits) ==
    IF attempt >= retries
    THEN [success |-> FALSE, attempts |-> attempt, waits |-> waits]
    ELSE LET result == results[attempt + 1]
             wait_time == IF attempt < 3 THEN BackoffWaits[attempt + 1] ELSE 9
         IN  CASE result = "ok" ->
                    [success |-> TRUE, attempts |-> attempt + 1, waits |-> waits]
               [] result = "retry_after" ->
                    send_attempts_retrying_blocked(results, retry_after, attempt + 1,
                                                   Append(waits, retry_after))
               [] OTHER ->
                    send_attempts_retrying_blocked(results, retry_after, attempt + 1,
                                                   Append(waits, wait_time))

\* the loop `for attempt in range(retries)` of send_notification, from the
\* given attempt on; results[i] is what the channel does on the i-th attempt
\* and retry_after the wait a RetryAfter carries; waits lists the sleeps
RECURSIVE send_attempts(_, _, _, _)
send_attempts(results, retry_after, attempt, waits) ==
    IF attempt >= retries
    THEN [success |-> FALSE, attempts |-> attempt, waits |-> waits]
    ELSE LET result == results[attempt + 1]
             wait_time == IF attempt < 3 THEN BackoffWaits[attempt + 1] ELSE 9
         IN  CASE result = "ok" ->
                    [success |-> TRUE, attempts |-> attempt + 1, waits |-> waits]
               [] result = "retry_after" ->
                    send_attempts(results, retry_after, attempt + 1,
                                  Append(waits, retry_after))
               [] result = "blocked" ->
                    [success |-> FALSE, attempts |-> attempt + 1, waits |-> waits]
               [] OTHER ->
                    send_attempts(results, retry_after, attempt + 1,
                                  Append(waits, wait_time))

\* send_notification that gives up after its first attempt
send_notification_single_attempt(results, retry_after) ==
    [success |-> results[1] = "ok", attempts |-> 1, waits |-> <<>>]

\* PyrusTelegramBot.send_notification
send_notification(results, retry_after) == send_attempts(results, retry_after, 0, <<>>)

-----------------------------------------------------------------------------
(* The state machine *)

\* The instants at which the model samples the wall clock: 11:00, 20:00 and
\* 23:00 local time of every day (06:00, 15:00 and 18:00 UTC)
ClockAt(i) ==
    (i \div 3) * MinPerDay +
    (CASE i % 3 = 0 -> 6 * MinPerHour
       [] i % 3 = 1 -> 15 * MinPerHour
       [] i % 3 = 2 -> 18 * MinPerHour)
ClockStart == ClockAt(0)

NoDelivery == [user_id |-> 0, tasks |-> {}, outcome |-> "none", attempts |-> 0]

\* payload.task.comments of a comment event on task t
Payloads(t) == {cs \in SUBSET CommentsOf(t) : Cardinality(cs) <= MaxPayloadComments}
\* payload.change of a task_updated / form_updated event
UpdateChanges ==
    {NoChange} \cup
    [kind : ChangeKinds \ {"absent"}, user_id : {0, 2}, comment_id : {NoComment}]
\* payload.change of a comment_deleted event on task t
DeletedChanges(t) ==
    {NoChange} \cup
    [kind : {"absent"}, user_id : {0}, comment_id : {NoComment} \cup CommentIds]

NoInput == [dt |-> 0, hours |-> 0, quiet_start |-> <<0, 0>>, quiet_end |-> <<0, 0>>]
NoResult == [quiet |-> "none", scheduled |-> -1]

Init ==
    /\ pending = {}
    /\ processed = {}
    /\ settings = "none"
    /\ now = ClockStart
    /\ wpc = "idle"
    /\ wnow = ClockStart
    /\ due = {}
    /\ toSend = {}
    /\ delivery = NoDelivery
    /\ cin = NoInput
    /\ cout = NoResult

workerVars == <<wpc, wnow, due, toSend, delivery>>
clockVars == <<cin, cout>>

\* POST /pyrus/webhook with event = "comment"
CommentEvent(t, cs, actor, has_subject, db_fail) ==
    /\ \A c \in cs : Comment(c).create_date <= now
    /\ LET r == _handle_comment_event(pending, processed, t, cs, actor, has_subject,
                                      db_fail)
       IN  /\ pending' = r.pending
           /\ processed' = r.processed
    /\ UNCHANGED <<settings, now, workerVars, clockVars>>

\* POST /pyrus/webhook with event = "task_updated" or "form_updated"
TaskUpdatedEvent(t, actor, change) ==
    /\ pending' = process_task_updated(pending, t, actor, change)
    /\ UNCHANGED <<processed, settings, now, workerVars, clockVars>>

\* POST /pyrus/webhook with event = "task_closed" or "task_canceled"
TaskClosedEvent(t) ==
    /\ pending' = _handle_task_closed_event(pending, t)
    /\ UNCHANGED <<processed, settings, now, workerVars, clockVars>>

\* POST /pyrus/webhook with event = "comment_deleted"
CommentDeletedEvent(t, actor, change) ==
    /\ pending' = process_comment_deleted(pending, t, actor, change)
    /\ UNCHANGED <<processed, settings, now, workerVars, clockVars>>

\* POST /pyrus/webhook with any other event type
OtherEvent(t, actor) ==
    /\ pending' = generic_reaction(pending, t, actor, NoChange)
    /\ UNCHANGED <<processed, settings, now, workerVars, clockVars>>

\* bot.py:279,300: the admin commands that write settings['service_enabled']
SetServiceEnabled(v) ==
    /\ settings # v
    /\ settings' = v
    /\ UNCHANGED <<pending, processed, now, workerVars, clockVars>>

\* _is_service_enabled that never reads the flag
service_flag_ignored == TRUE

\* NotificationWorker._is_service_enabled
_is_service_enabled == settings = "true"

\* _group_by_user that keeps only the latest record of a recipient
RECURSIVE _group_by_user_last_record(_)
_group_by_user_last_record(records) ==
    IF records = {} THEN [u \in {} |-> {}]
    ELSE LET record == CHOOSE r \in records : TRUE
             batches == _group_by_user_last_record(records \ {record})
             user_id == record.user_id
         IN  [u \in DOMAIN batches \cup {user_id} |->
                 IF u = user_id THEN {record} ELSE batches[u]]

\* NotificationWorker._group_by_user: user_batches, a dict from user_id to
\* the records of that user
RECURSIVE _group_by_user(_)
_group_by_user(records) ==
    IF records = {} THEN [u \in {} |-> {}]
    ELSE LET record == CHOOSE r \in records : TRUE
             batches == _group_by_user(records \ {record})
             user_id == record.user_id
         IN  IF user_id \in DOMAIN batches
             THEN [batches EXCEPT ![user_id] = @ \cup {record}]
             ELSE [u \in DOMAIN batches \cup {user_id} |->
                     IF u = user_id THEN {record} ELSE batches[u]]

\* _process_cycle without the quiet hours check
TickStart_without_quiet_check ==
    /\ wpc = "idle"
    /\ IF ~_is_service_enabled
       THEN UNCHANGED <<wpc, wnow, due, toSend>>
       ELSE LET due_records == select_due(pending, now)
            IN  IF due_records = {}
                THEN UNCHANGED <<wpc, wnow, due, toSend>>
                ELSE /\ wnow' = now
                     /\ due' = due_records
                     /\ toSend' = DOMAIN _group_by_user(due_records)
                     /\ wpc' = "sending"
    /\ UNCHANGED <<pending, processed, settings, now, delivery, clockVars>>

\* a tick started without waiting for the tick in progress
TickStart_overlapping ==
    /\ wpc \in {"idle", "sending", "updating"}
    /\ _is_service_enabled
    /\ ~is_in_quiet_hours(now, QUIET_START, QUIET_END)
    /\ LET due_records == select_due(pending, now)
       IN  /\ due_records # {}
           /\ wnow' = now
           /\ due' = due_records
           /\ toSend' = DOMAIN _group_by_user(due_records)
           /\ wpc' = "sending"
    /\ UNCHANGED <<pending, processed, settings, now, delivery, clockVars>>

\* NotificationWorker._process_cycle up to the first await: the flag, the
\* quiet hours check, select_due and the grouping
TickStart ==
    /\ wpc = "idle"
    /\ IF ~_is_service_enabled
       THEN UNCHANGED <<wpc, wnow, due, toSend>>
       ELSE IF is_in_quiet_hours(now, QUIET_START, QUIET_END)
       THEN UNCHANGED <<wpc, wnow, due, toSend>>
       ELSE LET due_records == select_due(pending, now)
            IN  IF due_records = {}
                THEN UNCHANGED <<wpc, wnow, due, toSend>>
                ELSE /\ wnow' = now
                     /\ due' = due_records
                     /\ toSend' = DOMAIN _group_by_user(due_records)
                     /\ wpc' = "sending"
    /\ UNCHANGED <<pending, processed, settings, now, delivery, clockVars>>

\* e.retry_after of a RetryAfter, in seconds
RetryAfterWaits == {2, 30}

\* what happens in one _send_user_batch: the message is formatted or the
\* formatting raises (caught at worker.py:193), and the channel answers the
\* attempts of send_notification
SendRuns == {<<"ok", "ok", "ok">>,
             <<"blocked", "ok", "ok">>}
\* the store while _send_user_batch writes its log record: "up", "down" from
\* then on, or "recovers" once the writes of the batch have failed
StoreStates == {"up", "down", "recovers"}
BatchRuns ==
    [format_ok : {FALSE}, results : {<<>>}, retry_after : {0}, store : StoreStates] \cup
    [format_ok : {TRUE}, results : SendRuns, retry_after : {30}, store : StoreStates]

\* NotificationWorker._send_user_batch for one recipient of user_batches.
\* db.log_event raises when the store is unavailable: the one in the try
\* block is caught at worker.py:193, the one in that handler is not, and the
\* exception leaves _process_cycle for the handler of start(), which calls
\* db.log_event again; if that raises too the exception leaves start() and
\* run_worker stops the worker.
SendBatch(user_id, run) ==
    /\ wpc = "sending"
    /\ user_id \in toSend
    /\ IF run.store = "up"
       THEN /\ LET records == _group_by_user(due)[user_id]
                   sent == send_notification(run.results, run.retry_after)
               IN  delivery' = [user_id |-> user_id,
                                tasks |-> {r.task_id : r \in records},
                                outcome |-> IF ~run.format_ok THEN "error"
                                            ELSE IF sent.success THEN "sent"
                                            ELSE "failed",
                                attempts |-> IF run.format_ok THEN sent.attempts ELSE 0]
            /\ toSend' = toSend \ {user_id}
            /\ wpc' = IF toSend' = {} THEN "updating" ELSE "sending"
            /\ UNCHANGED <<wnow, due>>
       ELSE /\ delivery' = NoDelivery
            /\ toSend' = {}
            /\ due' = {}
            /\ wnow' = ClockStart
            /\ wpc' = IF run.store = "recovers" THEN "idle" ELSE "stopped"
    /\ UNCHANGED <<pending, processed, settings, now, clockVars>>

\* the loop of NotificationWorker._update_records_after_sending
RECURSIVE update_records(_, _, _)
update_records(pend, records, now_utc) ==
    IF records = {} THEN pend
    ELSE LET record == CHOOSE r \in records : TRUE
         IN  update_records(
                mark_sent_or_delete_by_ttl(pend, record.task_id, record.user_id, now_utc),
                records \ {record}, now_utc)

\* NotificationWorker._update_records_after_sending, which ends the tick
UpdateRecords ==
    /\ wpc = "updating"
    /\ pending' = update_records(pending, due, wnow)
    /\ wpc' = "idle"
    /\ due' = {}
    /\ wnow' = ClockStart
    /\ delivery' = NoDelivery
    /\ UNCHANGED <<processed, settings, now, toSend, clockVars>>

\* time passes between two ticks
AdvanceClock ==
    /\ wpc = "idle"
    /\ \E i \in 0..(MaxClockSteps - 1) :
         /\ now = ClockAt(i)
         /\ now' = ClockAt(i + 1)
    /\ UNCHANGED <<pending, processed, settings, workerVars, clockVars>>

Next ==
    \/ \E t \in Tasks, actor \in Actors :
         \E cs \in Payloads(t) : CommentEvent(t, cs, actor, TRUE, "none")
    \/ \E t \in Tasks :
         \E cs \in Payloads(t) : CommentEvent(t, cs, NoActor, FALSE, "none")
    \/ \E t \in Tasks, db_fail \in DbFaults :
         \E cs \in Payloads(t) : CommentEvent(t, cs, NoActor, TRUE, db_fail)
    \/ \E t \in Tasks, actor \in Actors, change \in UpdateChanges :
         TaskUpdatedEvent(t, actor, change)
    \/ \E t \in Tasks : TaskClosedEvent(t)
    \/ \E t \in Tasks, actor \in Actors :
         \E change \in DeletedChanges(t) : CommentDeletedEvent(t, actor, change)
    \/ \E t \in Tasks, actor \in Actors : OtherEvent(t, actor)
    \/ \E v \in {"true", "false"} : SetServiceEnabled(v)
    \/ TickStart
    \/ \E user_id \in RegisteredUsers, run \in BatchRuns : SendBatch(user_id, run)
    \/ UpdateRecords
    \/ AdvanceClock

Spec == Init /\ [][Next]_vars

-----------------------------------------------------------------------------
(* The worker with recurring ticks: the loop of start() runs a tick every  *)
(* 60 seconds, every delivery call returns (bounded retries, each with a   *)
(* timeout) and time passes.  The store stays available, so no tick is     *)
(* abandoned, and every delivered event is recorded in the ledger.         *)

MaxLiveDays == 2

\* time passes between two ticks; the clock is sampled at 11:00 local time
\* of every day
AdvanceClockLive ==
    /\ wpc = "idle"
    /\ \E i \in 0..(MaxLiveDays - 1) :
         /\ now = ClockAt(3 * i)
         /\ now' = ClockAt(3 * (i + 1))
    /\ UNCHANGED <<pending, processed, settings, workerVars, clockVars>>

SendBatchLive ==
    \E user_id \in RegisteredUsers, run \in BatchRuns :
       run.store = "up" /\ SendBatch(user_id, run)

NextLive ==
    \/ \E t \in Tasks, actor \in Actors :
         \E cs \in Payloads(t) : CommentEvent(t, cs, actor, TRUE, "none")
    \/ \E t \in Tasks, actor \in Actors, change \in UpdateChanges :
         TaskUpdatedEvent(t, actor, change)
    \/ \E t \in Tasks : TaskClosedEvent(t)
    \/ \E t \in Tasks, actor \in Actors :
         \E change \in DeletedChanges(t) : CommentDeletedEvent(t, actor, change)
    \/ SetServiceEnabled("true")
    \/ TickStart
    \/ SendBatchLive
    \/ UpdateRecords
    \/ AdvanceClockLive

SpecLive ==
    /\ Init
    /\ [][NextLive]_vars
    /\ WF_vars(TickStart)
    /\ WF_vars(SendBatchLive)
    /\ WF_vars(UpdateRecords)
    /\ WF_vars(AdvanceClockLive)

-----------------------------------------------------------------------------
(* The worker next to mentions and reactions only: every event is a        *)
(* comment event that carries one comment (a mention of the users it names *)
(* and a reaction of its author) or a task_updated event of a registered   *)
(* actor (a reaction).  Tasks are not closed and comments are not deleted, *)
(* so between the selection and the update of a tick a row leaves the      *)
(* queue only through a reaction of its user.                              *)

SingleComments(t) == {cs \in Payloads(t) : Cardinality(cs) = 1}

NextReact ==
    \/ \E t \in Tasks : \E cs \in SingleComments(t) : CommentEvent(t, cs, NoActor, TRUE, "none")
    \/ \E t \in Tasks, actor \in RegisteredUsers : TaskUpdatedEvent(t, actor, NoChange)
    \/ SetServiceEnabled("true")
    \/ TickStart
    \/ SendBatchLive
    \/ UpdateRecords
    \/ AdvanceClock

SpecReact == Init /\ [][NextReact]_vars

-----------------------------------------------------------------------------
(* The worker under every outcome of the read of the service flag: the     *)
(* setting holds a value written by the bot or by hand, or is absent, and  *)
(* db.settings_get returns it or raises.                                   *)

\* settings['service_enabled']: absent ("none") or a stored string
SettingValues == {"none", "true", "false", "True"}
\* what db.settings_get('service_enabled') does at the start of a tick
SettingsReads(value) == {[raised |-> FALSE, value |-> value],
                         [raised |-> TRUE, value |-> "none"]}

\* _is_service_enabled whose except branch answers True and that takes every
\* value but 'false' for enabled
is_service_enabled_fail_open(read) == read.raised \/ read.value # "false"

\* NotificationWorker._is_service_enabled, given the outcome of settings_get
is_service_enabled_read(read) ==
    IF read.raised THEN FALSE ELSE read.value = "true"

\* a write of settings['service_enabled'] (bot.py or the store's console)
SetServiceValue(v) ==
    /\ settings # v
    /\ settings' = v
    /\ UNCHANGED <<pending, processed, now, workerVars, clockVars>>

\* NotificationWorker._process_cycle up to the first await, with the read of
\* the flag as an input
TickStartRead(read) ==
    /\ wpc = "idle"
    /\ IF ~is_service_enabled_read(read)
       THEN UNCHANGED <<wpc, wnow, due, toSend>>
       ELSE IF is_in_quiet_hours(now, QUIET_START, QUIET_END)
       THEN UNCHANGED <<wpc, wnow, due, toSend>>
       ELSE LET due_records == select_due(pending, now)
            IN  IF due_records = {}
                THEN UNCHANGED <<wpc, wnow, due, toSend>>
                ELSE /\ wnow' = now
                     /\ due' = due_records
                     /\ toSend' = DOMAIN _group_by_user(due_records)
                     /\ wpc' = "sending"
    /\ UNCHANGED <<pending, processed, settings, now, delivery, clockVars>>

NextFlag ==
    \/ \E t \in Tasks : \E cs \in SingleComments(t) : CommentEvent(t, cs, NoActor, TRUE, "none")
    \/ \E v \in SettingValues : SetServiceValue(v)
    \/ \E read \in SettingsReads(settings) : TickStartRead(read)
    \/ SendBatchLive
    \/ UpdateRecords
    \/ AdvanceClock

SpecFlag == Init /\ [][NextFlag]_vars

-----------------------------------------------------------------------------
(* The clock functions on their own: is_in_quiet_hours and schedule_after  *)
(* applied to bounded sets of instants, delays and quiet-hours windows.    *)

QuarterHour == 15
ClockInstants == {k * QuarterHour : k \in 0..MaxQuarterHours}
\* delays in minutes: 0h, 1h, 1.5h, 3h
ClockDelays == {0, 60, 90, 180}
\* (quiet_start, quiet_end) configurations
ClockWindows ==
    { <<<<22, 0>>, <<9, 0>>>>,     \* wraps midnight (the default)
      <<<<12, 0>>, <<13, 0>>>>,    \* within one day
      <<<<22, 30>>, <<6, 15>>>>,   \* wraps, with minutes
      <<<<9, 30>>, <<9, 45>>>>,    \* within one hour
      <<<<9, 45>>, <<9, 30>>>>,    \* wraps, start and end in the same hour
      <<<<22, 30>>, <<22, 10>>>>,  \* wraps, start and end in the same hour
      <<<<0, 0>>, <<0, 0>>>> }     \* end = start

InitClock ==
    /\ pending = {}
    /\ processed = {}
    /\ settings = "none"
    /\ now = ClockStart
    /\ wpc = "idle"
    /\ wnow = ClockStart
    /\ due = {}
    /\ toSend = {}
    /\ delivery = NoDelivery
    /\ cin \in [dt : ClockInstants, hours : ClockDelays,
                quiet_start : {w[1] : w \in ClockWindows},
                quiet_end : {w[2] : w \in ClockWindows}]
    /\ <<cin.quiet_start, cin.quiet_end>> \in ClockWindows
    /\ cout = NoResult

\* is_in_quiet_hours(dt, tz, quiet_start, quiet_end)
ApplyIsInQuietHours ==
    /\ cout.quiet = "none"
    /\ cout' = [cout EXCEPT !.quiet =
                  IF is_in_quiet_hours(cin.dt, cin.quiet_start, cin.quiet_end)
                  THEN "true" ELSE "false"]
    /\ UNCHANGED <<pending, processed, settings, now, workerVars, cin>>

\* schedule_after(base_ts, hours, tz, quiet_start, quiet_end)
ApplyScheduleAfter ==
    /\ cout.scheduled = -1
    /\ cout' = [cout EXCEPT !.scheduled =
                  schedule_after(cin.dt, cin.hours, cin.quiet_start, cin.quiet_end)]
    /\ UNCHANGED <<pending, processed, settings, now, workerVars, cin>>

NextClock == ApplyIsInQuietHours \/ ApplyScheduleAfter

SpecClock == InitClock /\ [][NextClock]_vars

-----------------------------------------------------------------------------
(* The delivery function on its own: every run of channel results *)

NoSendResult == [success |-> FALSE, attempts |-> 0, waits |-> <<>>]

InitSend ==
    /\ pending = {}
    /\ processed = {}
    /\ settings = "none"
    /\ now = ClockStart
    /\ wpc = "idle"
    /\ wnow = ClockStart
    /\ due = {}
    /\ toSend = {}
    /\ delivery = NoDelivery
    /\ cin \in [results : [1..retries -> ChannelResults], retry_after : RetryAfterWaits]
    /\ cout = NoSendResult

\* send_notification(telegram_id, message)
ApplySendNotification ==
    /\ cout = NoSendResult
    /\ cout' = send_notification(cin.results, cin.retry_after)
    /\ UNCHANGED <<pending, processed, settings, now, workerVars, cin>>

NextSend == ApplySendNotification

SpecSend == InitSend /\ [][NextSend]_vars

-----------------------------------------------------------------------------
(* Two calls of upsert_or_shift_pending for one (task, user) pair whose    *)
(* store requests interleave, as when two server processes handle events.  *)
(* Each call is a select (db.py:114) followed by an update (db.py:127) or  *)
(* an insert (db.py:142), with no transaction around them.                 *)

UpsertTask == 1
UpsertUser == 1
\* the comments that mention UpsertUser on UpsertTask
UpsertComments == {c \in CommentsOf(UpsertTask) :
                     \E i \in 1..Len(Comment(c).mentions) :
                        Comment(c).mentions[i] = UpsertUser}
UpsertCalls == {1, 2}

\* the row upsert_or_shift_pending inserts for comment c (db.py:130-142)
UpsertRow(c) ==
    CHOOSE r \in upsert_or_shift_pending({}, UpsertTask, UpsertUser, Comment(c).create_date, c,
                     schedule_after(Comment(c).create_date, DELAY_HOURS,
                                    QUIET_START, QUIET_END)) : TRUE

\* a row of the pair left by an earlier mention, sent once
UpsertOldRow ==
    [task_id |-> UpsertTask, user_id |-> UpsertUser, first_mention_at |-> 180,
     last_mention_at |-> 180, last_mention_comment_id |-> 4,
     last_mention_comment_text |-> 4, next_send_at |-> 540, times_sent |-> 1,
     task_title |-> UpsertTask]

InitUpsert ==
    /\ pending \in {{}, {UpsertOldRow}}
    /\ processed = {}
    /\ settings = "none"
    /\ now = ClockStart
    /\ wpc = "idle"
    /\ wnow = ClockStart
    /\ due = {}
    /\ toSend = {}
    /\ delivery = NoDelivery
    \* the comment of each call, and whether the table has a unique
    \* constraint on (task_id, user_id): the schema is not part of the code
    /\ cin \in [comment : [UpsertCalls -> UpsertComments], unique : BOOLEAN]
    /\ cout = [pc |-> [i \in UpsertCalls |-> "select"],
               existing |-> [i \in UpsertCalls |-> FALSE],
               order |-> <<>>]

\* db.py:114, `existing = ...select("*").eq(...).eq(...).execute()`
UpsertSelect(i) ==
    /\ cout.pc[i] = "select"
    /\ cout' = [cout EXCEPT !.pc[i] = "write",
                            !.existing[i] = (RowsOf(pending, UpsertTask, UpsertUser) # {})]
    /\ UNCHANGED <<pending, processed, settings, now, workerVars, cin>>

\* db.py:116-127, the update of the rows of the pair
UpsertUpdate(i) ==
    /\ cout.pc[i] = "write"
    /\ cout.existing[i]
    /\ LET c == cin.comment[i]
           new == UpsertRow(c)
       IN  pending' = {IF r.task_id = UpsertTask /\ r.user_id = UpsertUser
                       THEN [r EXCEPT !.last_mention_at = new.last_mention_at,
                                      !.last_mention_comment_id = new.last_mention_comment_id,
                                      !.last_mention_comment_text = new.last_mention_comment_text,
                                      !.next_send_at = new.next_send_at,
                                      !.task_title = new.task_title]
                       ELSE r : r \in pending}
    /\ cout' = [cout EXCEPT !.pc[i] = "done", !.order = Append(cout.order, i)]
    /\ UNCHANGED <<processed, settings, now, workerVars, cin>>

\* db.py:128-142, the insert of a new row; with a unique constraint the
\* store rejects a second row of the pair and execute() raises
UpsertInsert(i) ==
    /\ cout.pc[i] = "write"
    /\ ~cout.existing[i]
    /\ IF cin.unique /\ RowsOf(pending, UpsertTask, UpsertUser) # {}
       THEN /\ cout' = [cout EXCEPT !.pc[i] = "raised", !.order = Append(cout.order, i)]
            /\ UNCHANGED pending
       ELSE /\ cout' = [cout EXCEPT !.pc[i] = "done", !.order = Append(cout.order, i)]
            /\ pending' = pending \cup {UpsertRow(cin.comment[i])}
    /\ UNCHANGED <<processed, settings, now, workerVars, cin>>

NextUpsert ==
    \/ \E i \in UpsertCalls : UpsertSelect(i)
    \/ \E i \in UpsertCalls : UpsertUpdate(i)
    \/ \E i \in UpsertCalls : UpsertInsert(i)

SpecUpsert == InitUpsert /\ [][NextUpsert]_vars

-----------------------------------------------------------------------------
(* The batch message on its own: _format_multi_message applied to two due  *)
(* records of one recipient.  utils.calculate_fire_icons is imported at    *)
(* worker.py:18 and is not part of the code at hand; the spec describes it *)
(* as an urgency score derived from hours-overdue and times-sent, so it is *)
(* any function of the two that does not decrease in either.              *)

\* `now` of the tick that formats the message
FormatNow == ClockAt(3)
\* last_mention_at of the records: 23, 10 and 5 hours before FormatNow
FormatMentionTimes == {FormatNow - 23 * MinPerHour,
                       FormatNow - 10 * MinPerHour,
                       FormatNow - 5 * MinPerHour}
FormatTimesSent == {0, 1}
\* hours_overdue = int((now_utc - last_mention_utc).total_seconds() / 3600)
hours_overdue(record, now_utc) == (now_utc - record.last_mention_at) \div MinPerHour
FormatHours == {(FormatNow - m) \div MinPerHour : m \in FormatMentionTimes}

\* the longest string of icons
MaxFireIcons == 3
\* len(calculate_fire_icons(hours_overdue, times_sent)), one function per
\* way of deriving the icons
FireLevels ==
    {f \in [FormatHours \X FormatTimesSent -> 1..MaxFireIcons] :
        \A a, b \in FormatHours \X FormatTimesSent :
           (a[1] <= b[1] /\ a[2] <= b[2]) => f[a] <= f[b]}

\* list.sort(key=fire_level, reverse=True): a stable sort, records of equal
\* fire_level keep the order of the input
RECURSIVE sort_by_fire_level(_)
sort_by_fire_level(task_data) ==
    IF task_data = <<>> THEN <<>>
    ELSE LET first == Head(task_data)
             rest == sort_by_fire_level(Tail(task_data))
             before == SelectSeq(rest, LAMBDA x : x.fire_level > first.fire_level)
             after == SelectSeq(rest, LAMBDA x : x.fire_level <= first.fire_level)
         IN  before \o <<first>> \o after

\* _format_multi_message: the task ids in the order of the lines
_format_multi_message(records, now_utc, fire) ==
    LET task_data == [i \in 1..Len(records) |->
                        [task_id |-> records[i].task_id,
                         fire_level |-> fire[<<hours_overdue(records[i], now_utc),
                                               records[i].times_sent>>]]]
        sorted == sort_by_fire_level(task_data)
    IN  [i \in 1..Len(sorted) |-> sorted[i].task_id]

InitFormat ==
    /\ pending = {}
    /\ processed = {}
    /\ settings = "none"
    /\ now = FormatNow
    /\ wpc = "idle"
    /\ wnow = ClockStart
    /\ due = {}
    /\ toSend = {}
    /\ delivery = NoDelivery
    /\ \E m1, m2 \in FormatMentionTimes, s1, s2 \in FormatTimesSent, f \in FireLevels :
          cin = [records |-> <<[task_id |-> 1, last_mention_at |-> m1, times_sent |-> s1],
                               [task_id |-> 2, last_mention_at |-> m2, times_sent |-> s2]>>,
                 fire |-> f]
    /\ cout = <<>>

ApplyFormatMultiMessage ==
    /\ cout = <<>>
    /\ cout' = _format_multi_message(cin.records, now, cin.fire)
    /\ UNCHANGED <<pending, processed, settings, now, workerVars, cin>>

NextFormat == ApplyFormatMultiMessage

SpecFormat == InitFormat /\ [][NextFormat]_vars

-----------------------------------------------------------------------------
(* The webhook endpoint on its own: a run of requests, well-formed and     *)
(* malformed, handled one after the other by pyrus_webhook.                *)

\* what json.loads and PyrusWebhookPayload(**payload_data) make of the body
ParseOutcomes == {"ok", "invalid_json", "missing_fields"}
WebhookEvents == {"comment", "task_updated", "task_closed"}
\* the comment the body carries (its task is the task of the event)
WebhookComments == {1, 4}
WebhookBodies ==
    [parse : ParseOutcomes, event : WebhookEvents, comment : WebhookComments,
     actor : {2}]
\* requests per run
MaxWebhookRequests == 3
WebhookNow == ClockAt(3)

\* _process_webhook_event: dispatch on payload.event
_process_webhook_event(pend, proc, body) ==
    LET task_id == Comment(body.comment).task
    IN  CASE body.event = "comment" ->
               LET r == _handle_comment_event(pend, proc, task_id, {body.comment},
                                              body.actor, TRUE, "none")
               IN  [pending |-> r.pending, processed |-> r.processed]
          [] body.event = "task_updated" ->
               [pending |-> process_task_updated(pend, task_id, body.actor, NoChange),
                processed |-> proc]
          [] body.event = "task_closed" ->
               [pending |-> _handle_task_closed_event(pend, task_id),
                processed |-> proc]

\* pyrus_webhook that hands every body to _process_webhook_event
pyrus_webhook_unvalidated(pend, proc, body) ==
    LET r == _process_webhook_event(pend, proc, body)
    IN  [pending |-> r.pending, processed |-> r.processed, status |-> 200]

\* pyrus_webhook: a body that does not parse into PyrusWebhookPayload raises
\* HTTPException(400) before any store call
pyrus_webhook(pend, proc, body) ==
    IF body.parse # "ok"
    THEN [pending |-> pend, processed |-> proc, status |-> 400]
    ELSE LET r == _process_webhook_event(pend, proc, body)
         IN  [pending |-> r.pending, processed |-> r.processed, status |-> 200]

InitWebhook ==
    /\ pending = {}
    /\ processed = {}
    /\ settings = "none"
    /\ now = WebhookNow
    /\ wpc = "idle"
    /\ wnow = ClockStart
    /\ due = {}
    /\ toSend = {}
    /\ delivery = NoDelivery
    /\ cin \in [1..MaxWebhookRequests -> WebhookBodies]
    /\ cout = <<>>

\* POST /pyrus/webhook with the next body of the run
WebhookRequest ==
    /\ Len(cout) < MaxWebhookRequests
    /\ LET r == pyrus_webhook(pending, processed, cin[Len(cout) + 1])
       IN  /\ pending' = r.pending
           /\ processed' = r.processed
           /\ cout' = Append(cout, r.status)
    /\ UNCHANGED <<settings, now, workerVars, cin>>

NextWebhook == WebhookRequest

SpecWebhook == InitWebhook /\ [][NextWebhook]_vars

-----------------------------------------------------------------------------
(* Properties *)

AllUsers == RegisteredUsers \cup {UnregisteredUser}

\* C1: for every (task, user) pair the pending table holds zero or one row,
\* whatever sequence of mention events has been processed.
C1_AtMostOneRowPerPair ==
    \A t \in Tasks, u \in AllUsers : Cardinality(RowsOf(pending, t, u)) <= 1

\* a pair was mentioned twice and its single row was shifted
C1_Witness ==
    \E r \in pending :
        /\ r.first_mention_at # r.last_mention_at
        /\ Cardinality(RowsOf(pending, r.task_id, r.user_id)) = 1

\* C2: processing the same comment event a second time right after the first
\* leaves the pending table as the first processing left it.
C2_ReplayEqualsOnce ==
    \A t \in Tasks, actor \in Actors, has_subject \in BOOLEAN :
      \A cs \in Payloads(t) :
        (\A c \in cs : Comment(c).create_date <= now) =>
            LET once == _handle_comment_event(pending, processed, t, cs, actor,
                                              has_subject, "none")
                twice == _handle_comment_event(once.pending, once.processed, t, cs,
                                               actor, has_subject, "none")
            IN  twice.pending = once.pending

C4_ClosureClearsTask ==
    [][\A t \in Tasks :
         TaskClosedEvent(t) =>
            /\ \A r \in pending' : r.task_id # t
            /\ {r \in pending' : r.task_id # t} = {r \in pending : r.task_id # t}]_vars

\* the mentions of task 1 were processed, task 1 holds no row, task 2 does
C4_Witness ==
    /\ {<<1, 1>>, <<1, 3>>} \subseteq processed
    /\ \A r \in pending : r.task_id # 1
    /\ \E r \in pending : r.task_id = 2

\* C5: the post-send update of a row deletes it whenever the tick's now is at
\* or past first_mention_at + TTL, also when the row was shifted since.
C5_TtlFromFirstMention ==
    [][UpdateRecords =>
         \A record \in due :
            \A r \in RowsOf(pending, record.task_id, record.user_id) :
                (wnow >= r.first_mention_at + TTL_HOURS)
                    => RowsOf(pending', record.task_id, record.user_id) = {}]_vars

C7_QuietTickDoesNothing ==
    [][(TickStart /\ LocalTimeOfDay(now) \in
                        (0..(TimeOf(QUIET_END) - 1)) \cup (TimeOf(QUIET_START)..(MinPerDay - 1)))
          => /\ pending' = pending
             /\ wpc' = "idle"
             /\ toSend' = {}
             /\ delivery' = NoDelivery]_vars

\* the worker is idle at 23:00 local with the service enabled and a due row
C7_Witness ==
    /\ wpc = "idle"
    /\ settings = "true"
    /\ LocalTimeOfDay(now) = 23 * MinPerHour
    /\ \E r \in pending : r.next_send_at <= now

\* C8: a tick that starts while service_enabled is false attempts no delivery
\* and reads, updates and deletes no pending row; the flag read is that of
\* the tick's own start.
C8_DisabledTickDoesNothing ==
    [][(TickStart /\ settings = "false")
          => /\ pending' = pending
             /\ wpc' = "idle"
             /\ due' = {} /\ toSend' = {}
             /\ delivery' = NoDelivery]_vars

\* the service was switched off after a delivery: the worker is idle outside
\* the quiet hours with a due row that has been sent before
C8_Witness ==
    /\ wpc = "idle"
    /\ settings = "false"
    /\ ~is_in_quiet_hours(now, QUIET_START, QUIET_END)
    /\ \E r \in pending : r.next_send_at <= now /\ r.times_sent >= 1

\* C9: is_in_quiet_hours is the half-open daily window [start, end) in local
\* time, which wraps midnight when end <= start; 22:00-09:00 is quiet at
\* 22:00, 23:30 and 07:00 and not quiet at 14:00 and 09:00.
C9_HalfOpenWindow ==
    (cout.quiet # "none") =>
        LET s == cin.quiet_start[1] * 60 + cin.quiet_start[2]
            e == cin.quiet_end[1] * 60 + cin.quiet_end[2]
            lt == (cin.dt + 5 * 60) % (24 * 60)
            length == IF e = s THEN 24 * 60 ELSE (e - s + 24 * 60) % (24 * 60)
            inside == ((lt - s + 24 * 60) % (24 * 60)) < length
        IN  /\ (cout.quiet = "true") <=> inside
            /\ (cin.quiet_start = <<22, 0>> /\ cin.quiet_end = <<9, 0>>) =>
                  /\ (lt \in {22 * 60, 23 * 60 + 30, 7 * 60}) => cout.quiet = "true"
                  /\ (lt \in {14 * 60, 9 * 60}) => cout.quiet = "false"

\* the start instant of the default window was found quiet
C9_Witness ==
    /\ cout.quiet = "true"
    /\ cin.quiet_start = <<22, 0>> /\ cin.quiet_end = <<9, 0>>
    /\ (cin.dt + 5 * 60) % (24 * 60) = 22 * 60

\* C10: when base + delay is inside the quiet hours, schedule_after returns
\* the earliest end-of-window instant at or after base + delay (the end of
\* the same local day when the candidate is before it, else of the next day).
C10_EarliestWindowEnd ==
    (cout.scheduled # -1) =>
        LET candidate == cin.dt + cin.hours
            e == cin.quiet_end[1] * 60 + cin.quiet_end[2]
            lt == (candidate + 5 * 60) % (24 * 60)
            earliest_end == candidate + ((e - lt + 24 * 60) % (24 * 60))
        IN  (/\ cin.quiet_start # cin.quiet_end
             /\ is_in_quiet_hours(candidate, cin.quiet_start, cin.quiet_end))
                => cout.scheduled = earliest_end

\* C11: when base + delay is outside the quiet hours, schedule_after returns
\* exactly base + delay, fractional delays included: 10:00 local + 3h gives
\* 13:00 local and 10:00 local + 1.5h gives 11:30 local.
C11_NonQuietCandidateKept ==
    (cout.scheduled # -1) =>
        LET candidate == cin.dt + cin.hours
            s == cin.quiet_start[1] * 60 + cin.quiet_start[2]
            e == cin.quiet_end[1] * 60 + cin.quiet_end[2]
            lt == (candidate + 5 * 60) % (24 * 60)
            inside == IF e <= s THEN lt >= s \/ lt < e ELSE s <= lt /\ lt < e
            ten_local == 10 * 60 - 5 * 60
        IN  /\ ~inside => cout.scheduled = candidate
            /\ (cin.quiet_start = <<22, 0>> /\ cin.quiet_end = <<9, 0>> /\ cin.dt = ten_local) =>
                  /\ (cin.hours = 180) => cout.scheduled = 13 * 60 - 5 * 60
                  /\ (cin.hours = 90) => cout.scheduled = 11 * 60 + 30 - 5 * 60

\* 10:00 local plus one hour and a half was scheduled at 11:30 local
C11_Witness ==
    /\ cin.quiet_start = <<22, 0>> /\ cin.quiet_end = <<9, 0>>
    /\ cin.dt = 10 * 60 - 5 * 60
    /\ cin.hours = 90
    /\ cout.scheduled = 11 * 60 + 30 - 5 * 60

\* C12: for every base time, delay and window (start, end) the result of
\* schedule_after is outside the quiet hours and not earlier than
\* base + delay.
C12_NeverQuietNeverEarly ==
    (cout.scheduled # -1) =>
        /\ ~is_in_quiet_hours(cout.scheduled, cin.quiet_start, cin.quiet_end)
        /\ cout.scheduled >= cin.dt + cin.hours

\* C13: a comment event whose comments are all in the processed-comments
\* ledger already is a no-op: it creates, changes and deletes no pending row,
\* whatever was processed since the first delivery.
C13_ProcessedEventIsNoOp ==
    \A t \in Tasks :
      \A cs \in Payloads(t) :
        (cs # {} /\ \A c \in cs : processed_comment_exists(processed, t, c)) =>
            _handle_comment_event(pending, processed, t, cs, NoActor, TRUE, "none").pending
                = pending

\* C14: a pending row of task t whose last comment is c exists only when
\* (t, c) is in the processed-comments ledger, and every executed call of
\* insert_processed_comment adds an entry the ledger did not hold.
C14_LedgerBeforeQueue ==
    /\ \A r \in pending :
          processed_comment_exists(processed, r.task_id, r.last_mention_comment_id)
    /\ \A t \in Tasks, has_subject \in BOOLEAN, db_fail \in DbFaults \cup {"none"} :
          \A cs \in Payloads(t) :
             LET res == _handle_comment_event(pending, processed, t, cs, NoActor,
                                              has_subject, db_fail)
             IN  Cardinality(res.processed) = Cardinality(processed) + res.inserts

\* two comments of task 1 are recorded and the row of user 1 carries the
\* later one
C14_Witness ==
    /\ {<<1, 1>>, <<1, 2>>} \subseteq processed
    /\ \E r \in pending : r.task_id = 1 /\ r.user_id = 1 /\ r.last_mention_comment_id = 2

\* C15: when a store operation fails during the ingestion of a comment
\* event, no comment of the event is left marked as processed, and a later
\* redelivery of the event creates the row of every registered user
\* mentioned in a comment that was new (users the redelivery clears as
\* comment authors aside).
C15_FailedIngestionNotMarked ==
    \A t \in Tasks, db_fail \in DbFaults :
      \A cs \in Payloads(t) :
        LET first == _handle_comment_event(pending, processed, t, cs, NoActor, TRUE,
                                           db_fail)
            again == _handle_comment_event(first.pending, first.processed, t, cs,
                                           NoActor, TRUE, "none")
            authors == {Comment(c).author : c \in cs}
        IN  ((\A c \in cs : Comment(c).create_date <= now) /\ first.raised) =>
                /\ first.processed = processed
                /\ \A c \in cs :
                      ~processed_comment_exists(processed, t, c) =>
                          \A i \in 1..Len(Comment(c).mentions) :
                              LET u == Comment(c).mentions[i]
                              IN  (get_user(u) /\ u \notin authors)
                                      => RowsOf(again.pending, t, u) # {}

\* C16: the first mention of a registered user on a task (the pair has no
\* row) creates a row with times_sent = 0, first_mention_at =
\* last_mention_at = the creation time of the comment, the id of the comment
\* as last comment, and next_send_at = schedule_after(creation time, initial
\* delay).
C16_FirstMentionRow ==
    \A t \in Tasks, actor \in Actors, has_subject \in BOOLEAN :
      \A c \in CommentsOf(t) :
        LET res == _handle_comment_event(pending, processed, t, {c}, actor,
                                         has_subject, "none")
        IN  \A i \in 1..Len(Comment(c).mentions) :
              LET u == Comment(c).mentions[i]
              IN  (/\ Comment(c).create_date <= now
                   /\ ~processed_comment_exists(processed, t, c)
                   /\ get_user(u)
                   /\ RowsOf(pending, t, u) = {}
                   /\ u \notin {Comment(c).author, actor})
                  => RowsOf(res.pending, t, u) =
                        {[task_id |-> t,
                          user_id |-> u,
                          first_mention_at |-> Comment(c).create_date,
                          last_mention_at |-> Comment(c).create_date,
                          last_mention_comment_id |-> c,
                          last_mention_comment_text |-> c,
                          next_send_at |-> schedule_after(Comment(c).create_date,
                                                          DELAY_HOURS, QUIET_START, QUIET_END),
                          times_sent |-> 0,
                          task_title |-> t]}

\* C17: upsert_or_shift_pending for a pair that has a row overwrites
\* last_mention_at, the last-comment fields and next_send_at of that row in
\* place, leaves times_sent and first_mention_at as they were, and adds no
\* second row; no other row changes.
C17_ShiftInPlace ==
    \A r \in pending :
      \A c \in CommentsOf(r.task_id) :
        LET mention_time == Comment(c).create_date
            next_send_at == schedule_after(mention_time, DELAY_HOURS, QUIET_START, QUIET_END)
            after == upsert_or_shift_pending(pending, r.task_id, r.user_id, mention_time,
                                             c, next_send_at)
        IN  /\ after \ RowsOf(after, r.task_id, r.user_id) = pending \ {r}
            /\ RowsOf(after, r.task_id, r.user_id) =
                  {[task_id |-> r.task_id,
                    user_id |-> r.user_id,
                    first_mention_at |-> r.first_mention_at,
                    last_mention_at |-> mention_time,
                    last_mention_comment_id |-> c,
                    last_mention_comment_text |-> c,
                    next_send_at |-> next_send_at,
                    times_sent |-> r.times_sent,
                    task_title |-> r.task_id]}

\* a row that was sent once and shifted by the later comment c2: it keeps its
\* counter and its first mention
C17_Witness ==
    \E r \in pending :
        /\ r.times_sent = 1
        /\ r.last_mention_comment_id = 2
        /\ r.first_mention_at = Comment(1).create_date
        /\ r.last_mention_at = Comment(2).create_date
        /\ r.next_send_at = schedule_after(Comment(2).create_date, DELAY_HOURS,
                                           QUIET_START, QUIET_END)

\* C18: a mentioned user without a row in table users gets no pending row and
\* raises no error, and every registered user mentioned in the same comment
\* is queued with that comment.
C18_UnregisteredSkipped ==
    \A t \in Tasks, has_subject \in BOOLEAN :
      \A c \in CommentsOf(t) :
        LET res == _handle_comment_event(pending, processed, t, {c}, NoActor,
                                         has_subject, "none")
            mentioned == {Comment(c).mentions[i] : i \in 1..Len(Comment(c).mentions)}
        IN  (/\ Comment(c).create_date <= now
             /\ ~processed_comment_exists(processed, t, c)
             /\ \E u \in mentioned : ~get_user(u))
            => /\ ~res.raised
               /\ \A u \in mentioned :
                     /\ ~get_user(u) => RowsOf(res.pending, t, u) = {}
                     /\ (get_user(u) /\ u # Comment(c).author) =>
                            \E r \in RowsOf(res.pending, t, u) :
                                r.last_mention_comment_id = c

\* C19: a reaction event clears the queue only for its explicit actor: a
\* task update leaves every row of the task that is not the actor's as it
\* was, also the row of a user named in the change; a comment event leaves
\* as it was every row of a user who is neither the actor nor mentioned in
\* the payload, also the row of a user who wrote one of its comments.
C19_OnlyActorCleared ==
    /\ \A t \in Tasks, actor \in Actors, change \in UpdateChanges :
          \A r \in pending :
             (r.task_id = t /\ r.user_id # actor)
                 => r \in process_task_updated(pending, t, actor, change)
    /\ \A t \in Tasks, actor \in Actors :
          \A cs \in Payloads(t) :
             LET res == _handle_comment_event(pending, processed, t, cs, actor, TRUE, "none")
                 mentioned == UNION {{Comment(c).mentions[i] :
                                         i \in 1..Len(Comment(c).mentions)} : c \in cs}
             IN  \A r \in pending :
                    (r.task_id = t /\ r.user_id # actor /\ r.user_id \notin mentioned)
                        => r \in res.pending

\* C20: an event whose change kind is in REACTION_EXCLUDE_KINDS (viewed,
\* opened, read) deletes no pending row, whatever its event type, task_updated
\* included.
C20_ViewedDeletesNothing ==
    \A t \in Tasks, actor \in Actors, change \in UpdateChanges :
        (change # NoChange /\ change.kind \in REACTION_EXCLUDE_KINDS) =>
            /\ generic_reaction(pending, t, actor, change) = pending
            /\ process_task_updated(pending, t, actor, change) = pending

\* C21 as stated: a comment_deleted event for comment c on task W deletes
\* every row of W whose last comment is c, deletes no row of another task,
\* and changes nothing when it carries no comment id.
C21_RetractionByComment ==
    \A t \in Tasks, actor \in Actors :
      \A change \in DeletedChanges(t) :
        LET after == process_comment_deleted(pending, t, actor, change)
        IN  /\ (change # NoChange /\ change.comment_id # NoComment) =>
                   \A r \in after :
                      ~(r.task_id = t /\ r.last_mention_comment_id = change.comment_id)
            /\ \A r \in pending : (r.task_id # t) => r \in after
            /\ after \subseteq pending
            /\ (change = NoChange \/ change.comment_id = NoComment) => after = pending

\* C21 amended: a comment_deleted event for comment c on task W deletes every
\* row of W whose last comment is c, deletes no row of another task, and
\* changes nothing when it carries no comment id and names no actor and no
\* user in its change.
C21_RetractionByCommentNoActor ==
    \A t \in Tasks, actor \in Actors :
      \A change \in DeletedChanges(t) :
        LET after == process_comment_deleted(pending, t, actor, change)
            names_user == actor # NoActor \/ (change # NoChange /\ change.user_id # 0)
        IN  /\ (change # NoChange /\ change.comment_id # NoComment) =>
                   \A r \in after :
                      ~(r.task_id = t /\ r.last_mention_comment_id = change.comment_id)
            /\ \A r \in pending : (r.task_id # t) => r \in after
            /\ after \subseteq pending
            /\ ((change = NoChange \/ change.comment_id = NoComment) /\ ~names_user)
                   => after = pending

\* task 1 holds a row whose last comment is c1 and a row whose last comment
\* is c3, task 2 holds a row: the retraction of c1 removes exactly the first
C21_Witness ==
    /\ \E r \in pending : r.task_id = 1 /\ r.last_mention_comment_id = 1
    /\ \E r \in pending : r.task_id = 1 /\ r.last_mention_comment_id = 3
    /\ \E r \in pending : r.task_id = 2
    /\ process_comment_deleted(pending, 1, NoActor,
                               [kind |-> "absent", user_id |-> 0, comment_id |-> 1])
          = {r \in pending : ~(r.task_id = 1 /\ r.last_mention_comment_id = 1)}

\* C22: a tick selects exactly the rows with next_send_at <= now, every
\* message of the tick covers selected rows only, and the post-send update
\* changes no row of a pair that was not selected (a row that was not due).
C22_OnlyDueRows ==
    [][/\ (wpc = "idle" /\ wpc' = "sending") =>
             /\ due' \subseteq pending
             /\ \A r \in pending :
                   (r.next_send_at > now) => r \notin due'
       /\ (wpc = "sending" /\ delivery' # NoDelivery /\ delivery' # delivery) =>
             \A t \in delivery'.tasks :
                \E d \in due : /\ d.task_id = t
                               /\ d.user_id = delivery'.user_id
                               /\ d.next_send_at <= wnow
       /\ (wpc = "updating" /\ wpc' = "idle") =>
             \A r \in pending :
                (~\E d \in due : d.task_id = r.task_id /\ d.user_id = r.user_id)
                    => r \in pending']_vars

\* the tick is about to update its selected rows while the queue also holds
\* a row that was not due at the start of the tick
C22_Witness ==
    /\ wpc = "updating"
    /\ due # {}
    /\ \E r \in pending :
          /\ r.next_send_at > wnow
          /\ r.last_mention_at < wnow
          /\ ~\E d \in due : d.task_id = r.task_id /\ d.user_id = r.user_id

\* C23: the due rows of a tick are partitioned by recipient (one group per
\* distinct recipient, every due row in the group of its recipient and in no
\* other), and each recipient gets one delivery call, which covers all of
\* that recipient's due rows, before the rows are updated.
C23_OneBatchPerRecipient ==
    [][/\ (wpc = "idle" /\ wpc' = "sending") =>
             LET user_batches == _group_by_user(due')
             IN  /\ toSend' = {d.user_id : d \in due'}
                 /\ DOMAIN user_batches = toSend'
                 /\ \A u \in DOMAIN user_batches :
                       user_batches[u] = {d \in due' : d.user_id = u}
       /\ (wpc = "sending" /\ delivery' # NoDelivery /\ delivery' # delivery) =>
             /\ delivery'.user_id \in toSend
             /\ toSend' = toSend \ {delivery'.user_id}
             /\ delivery'.tasks =
                   {d.task_id : d \in {x \in due : x.user_id = delivery'.user_id}}
       /\ (wpc' = "updating") => toSend' = {}]_vars

\* one message to user 1 covered the due rows of both tasks
C23_Witness ==
    /\ delivery.outcome = "sent"
    /\ delivery.user_id = 1
    /\ delivery.tasks = {1, 2}
    /\ \E d \in due : d.user_id = 2

\* C24: when the channel answers that the chat was not found or the bot was
\* blocked, the delivery fails on that attempt with no further attempt in the
\* tick, and the rows of that batch get the update they get after a
\* successful send: removed once the time to live has passed, rescheduled
\* with times_sent counted up otherwise.
C24_PermanentFailure ==
    [][/\ (wpc = "sending" /\ delivery' # NoDelivery /\ delivery' # delivery) =>
             \A run \in BatchRuns :
                (/\ run.format_ok
                 /\ run.results[1] = "blocked"
                 /\ SendBatch(delivery'.user_id, run))
                   => /\ delivery'.outcome = "failed"
                      /\ delivery'.attempts = 1
       /\ (wpc = "updating" /\ wpc' = "idle"
             /\ delivery.outcome = "failed" /\ delivery.attempts = 1) =>
             \A d \in due :
                (d.user_id = delivery.user_id /\ d \in pending) =>
                   RowsOf(pending', d.task_id, d.user_id) =
                      RowsOf(mark_sent_or_delete_by_ttl(pending, d.task_id, d.user_id, wnow),
                             d.task_id, d.user_id)]_vars

\* the delivery to a blocked chat failed on its first attempt and the tick
\* is about to update the rows of that batch, which are still queued
C24_Witness ==
    /\ wpc = "updating"
    /\ delivery.outcome = "failed"
    /\ delivery.attempts = 1
    /\ \E d \in due : d.user_id = delivery.user_id /\ d \in pending

\* C25: send_notification makes at most 3 attempts; it stops with success at
\* the first attempt the channel accepts, and with failure after the third
\* transient failure (or at a blocked chat); after every transient failure
\* it waits 1, 3, 9 seconds by the number of the attempt, or the wait the
\* channel names when the failure is a rate limit.
C25_BoundedRetries ==
    (cout # NoSendResult) =>
        LET results == cin.results
            stops == {k \in 1..retries : results[k] \in {"ok", "blocked"}}
            last == IF stops = {} THEN retries
                    ELSE CHOOSE k \in stops : \A j \in stops : k <= j
            transient == IF stops = {} THEN retries ELSE last - 1
        IN  /\ cout.attempts = last
            /\ cout.attempts <= 3
            /\ cout.success = (results[last] = "ok")
            /\ (\A k \in 1..retries : results[k] # "ok") => ~cout.success
            /\ Len(cout.waits) = transient
            /\ \A i \in 1..transient :
                  cout.waits[i] = IF results[i] = "retry_after" THEN cin.retry_after
                                  ELSE <<1, 3, 9>>[i]

\* a timeout, a rate limit with a suggested wait of 30 seconds and then an
\* accepted third attempt
C25_Witness ==
    /\ cin.results = <<"timed_out", "retry_after", "ok">>
    /\ cin.retry_after = 30
    /\ cout = [success |-> TRUE, attempts |-> 3, waits |-> <<1, 30>>]

\* C26: with the service enabled from some instant on and ticks recurring,
\* every pending row is eventually removed from the queue; an undeliverable
\* recipient makes no difference, the row ages out by its time to live.
C26_EveryRowEventuallyRemoved ==
    \A task_id \in Tasks, user_id \in RegisteredUsers :
       (<>[](settings = "true")) =>
          ((RowsOf(pending, task_id, user_id) # {})
              ~> (RowsOf(pending, task_id, user_id) = {}))

\* a row that has been sent before is due again after its time to live has
\* passed, the delivery has just failed and the tick is about to remove it
C26_Witness ==
    /\ wpc = "updating"
    /\ delivery.outcome = "failed"
    /\ \E d \in due :
          /\ d \in pending
          /\ d.user_id = delivery.user_id
          /\ d.times_sent >= 1
          /\ wnow >= d.last_mention_at + TTL_HOURS

\* C27: a tick selects its due rows only when no tick is in progress: the
\* previous tick has sent all its batches and updated its rows, and between
\* ticks the worker holds no selection.
C27_TicksNeverOverlap ==
    [][/\ ((due' # due \/ wnow' # wnow) /\ due' # {}) =>
             /\ wpc = "idle"
             /\ due = {}
             /\ toSend = {}
             /\ delivery = NoDelivery
       /\ (wpc' = "idle") => (due' = {} /\ toSend' = {})]_vars

\* a second tick is in progress for a row that an earlier, completed tick
\* has sent and rescheduled
C27_Witness ==
    /\ wpc = "sending"
    /\ \E d \in due : d \in pending /\ d.times_sent >= 1

\* C28: when the formatting or the delivery of one recipient's batch fails
\* while other recipients of the tick wait for theirs, the tick goes on: the
\* other recipients stay to be served and the selected rows stay to be
\* updated.
C28_BatchFailureIsolated ==
    [][(wpc = "sending" /\ toSend' # toSend) =>
          \A user_id \in toSend, run \in BatchRuns :
             (/\ toSend \ {user_id} # {}
              /\ \/ ~run.format_ok
                 \/ ~send_notification(run.results, run.retry_after).success
              /\ SendBatch(user_id, run))
                => /\ toSend' = toSend \ {user_id}
                   /\ due' = due
                   /\ wpc' = IF toSend' = {} THEN "updating" ELSE "sending"]_vars

\* C29: no stop is requested, so the worker loop never ends, whatever is
\* raised in a tick.
C29_LoopNeverEnds == wpc # "stopped"

\* C30: a row whose batch ended without a delivery attempt is left as it was
\* by the update that ends the tick.
C30_UpdateOnlyAfterDelivery ==
    [][(wpc = "updating" /\ wpc' = "idle" /\ delivery.attempts = 0) =>
          \A d \in due :
             (d.user_id = delivery.user_id /\ d \in pending) => d \in pending']_vars

\* C31: when two calls of upsert_or_shift_pending for one pair have both
\* ended, neither has raised, the pair has exactly one row and the row holds
\* the mention of the call that wrote last.
C31_UpsertAtomicPerKey ==
    (\A i \in UpsertCalls : cout.pc[i] \in {"done", "raised"}) =>
        /\ \A i \in UpsertCalls : cout.pc[i] = "done"
        /\ Cardinality(RowsOf(pending, UpsertTask, UpsertUser)) = 1
        /\ \A r \in RowsOf(pending, UpsertTask, UpsertUser) :
              r.last_mention_comment_id = cin.comment[cout.order[Len(cout.order)]]

\* C32: after a comment event whose payload holds a comment that was not
\* processed before, is written by someone other than R and mentions the
\* registered user R, and whose actor is not R, the queue holds a row for
\* (task, R), whatever other comments the payload lists.
C32_MentionRowExists ==
    \A t \in Tasks, actor \in Actors, R \in RegisteredUsers :
      \A cs \in Payloads(t) :
        LET res == _handle_comment_event(pending, processed, t, cs, actor, TRUE, "none")
        IN  (/\ actor # R
             /\ \E c \in cs :
                   /\ ~processed_comment_exists(processed, t, c)
                   /\ Comment(c).author # R
                   /\ \E i \in 1..Len(Comment(c).mentions) : Comment(c).mentions[i] = R)
            => RowsOf(res.pending, t, R) # {}

\* C33: a message that is delivered lists a task for its recipient only
\* while the row of the pair is in the queue: after a reaction of the
\* recipient on the task, with no mention of the pair processed since, the
\* task is in no message, also when the reaction came between the selection
\* and the sending of the running tick.
C33_NoDeliveryAfterReaction ==
    [][(wpc = "sending" /\ delivery' # delivery /\ delivery'.outcome = "sent") =>
          \A t \in delivery'.tasks : RowsOf(pending, t, delivery'.user_id) # {}]_vars

\* C34: a task_updated event of actor R on a task, for a reaction R made at
\* reacted_at, leaves the row of (task, R) in the queue when the row's
\* latest mention was made after reacted_at (the event was delivered late).
C34_LateReactionKeepsLaterMention ==
    \A t \in Tasks, R \in RegisteredUsers, i \in 0..MaxClockSteps :
       LET reacted_at == ClockAt(i)
       IN  \A r \in RowsOf(pending, t, R) :
              (reacted_at <= now /\ reacted_at < r.last_mention_at)
                 => r \in process_task_updated(pending, t, R, NoChange)

\* C35: the batch message lists every record of the recipient exactly once,
\* and of two records with different hours overdue the more overdue one
\* comes first.
C35_MostOverdueFirst ==
    (cout # <<>>) =>
        /\ Len(cout) = Len(cin.records)
        /\ \A i \in 1..Len(cin.records) :
              Cardinality({k \in 1..Len(cout) : cout[k] = cin.records[i].task_id}) = 1
        /\ \A i, j \in 1..Len(cin.records) :
              (hours_overdue(cin.records[i], now) > hours_overdue(cin.records[j], now)) =>
                 \A k, l \in 1..Len(cout) :
                    (cout[k] = cin.records[i].task_id /\ cout[l] = cin.records[j].task_id)
                       => k < l

\* C36: a request whose body does not parse is answered 400 and changes
\* neither the pending rows nor the processed comments, and the request
\* after it is handled as if the malformed one had not been made.
C36_MalformedEventDropped ==
    [][(Len(cout) < MaxWebhookRequests) =>
          LET body == cin[Len(cout) + 1]
          IN  /\ (body.parse # "ok") =>
                    /\ pending' = pending
                    /\ processed' = processed
                    /\ cout' = Append(cout, 400)
              /\ (body.parse = "ok" /\ Len(cout) > 0 /\ cout[Len(cout)] = 400) =>
                    /\ cout' = Append(cout, 200)
                    /\ pending' = _process_webhook_event(pending, processed, body).pending
                    /\ processed' = _process_webhook_event(pending, processed, body).processed]_vars

C36_Witness ==
    /\ cout = <<200, 400, 200>>
    /\ cin[2].event = "task_closed"
    /\ Comment(cin[2].comment).task = 1
    /\ RowsOf(pending, 1, 1) # {}
    /\ cin[3].event = "comment"
    /\ Cardinality(processed) = 2

\* C37: a row that a new mention shifted after the tick selected it keeps,
\* through the update that ends the tick, the next_send_at the mention set.
C37_ShiftedRowNotOverwritten ==
    [][(wpc = "updating" /\ wpc' = "idle") =>
          \A d \in due : \A r \in RowsOf(pending, d.task_id, d.user_id) :
             (r.first_mention_at = d.first_mention_at /\ r.last_mention_at > d.last_mention_at)
                => \E q \in RowsOf(pending', d.task_id, d.user_id) :
                      q.next_send_at = r.next_send_at]_vars

\* C38: times_sent counts the ticks that included the row in a delivery
\* attempt: a row that was deleted and created again by a new mention after
\* the tick selected its predecessor has times_sent = 0 after the tick.
C38_TimesSentCountsDeliveries ==
    [][(wpc = "updating" /\ wpc' = "idle") =>
          \A d \in due : \A r \in RowsOf(pending, d.task_id, d.user_id) :
             (r.first_mention_at > d.first_mention_at /\ r.times_sent = 0)
                => \A q \in RowsOf(pending', d.task_id, d.user_id) : q.times_sent = 0]_vars

\* C39: no step leaves a row whose first_mention_at is later than its
\* last_mention_at, and no step changes the first_mention_at of a row that
\* exists before and after it, in whatever order the comment events arrive.
C39_FirstMentionNotAfterLast ==
    [][/\ \A r \in pending' : r.first_mention_at <= r.last_mention_at
       /\ \A r \in pending : \A q \in RowsOf(pending', r.task_id, r.user_id) :
             q.first_mention_at = r.first_mention_at]_vars

\* C40: a tick whose read of service_enabled raises, finds no setting or
\* finds any value other than 'true' sends nothing and changes no pending
\* row.
C40_FailsClosedOnFlag ==
    [][(wpc = "idle") =>
          \A read \in SettingsReads(settings) :
             (TickStartRead(read) /\ (read.raised \/ read.value # "true"))
                => /\ pending' = pending
                   /\ wpc' = "idle"
                   /\ due' = {} /\ toSend' = {}
                   /\ delivery' = NoDelivery]_vars

\* the flag holds a string that is not 'true' while the worker is idle
\* outside the quiet hours with a due row of a registered user
C40_Witness ==
    /\ wpc = "idle"
    /\ settings = "True"
    /\ ~is_in_quiet_hours(now, QUIET_START, QUIET_END)
    /\ select_due(pending, now) # {}

====
